---- MODULE Spec2Model ----
(***************************************************************************)
(* Model of caligo/core/command_dispatcher.py: the command table of        *)
(* CommandDispatcher (a Python dict, which keeps insertion order), the     *)
(* four registration operations on it, the message filter                  *)
(* command_predicate and the handler on_command.                           *)
(*                                                                         *)
(* Strings are sequences of one-character strings, so that split(),        *)
(* slicing and len() are computed as Python computes them.                 *)
(***************************************************************************)
EXTENDS Integers, Sequences, FiniteSets, TLC

VARIABLES
    commands,   \* self.commands: sequence of [key, cmd] in insertion order
    call,       \* the last operation called on the dispatcher, with its arguments
    raised,     \* the exception that left the last operation, or "none"
    invoked,    \* on_command: the calls made to cmd.func, each with the ctx.input it saw
    responses,  \* on_command: the responses sent to the chat, in order
    events      \* on_command: the events passed to dispatch_event, in order

vars == <<commands, call, raised, invoked, responses, events>>

----------------------------------------------------------------------------
(* Bounds of the model *)

\* longest alias list of a command function
MaxAliases == 1
\* most cmd_ functions a module passed to register_commands has
MaxCmds == 2
\* longest text that follows the first word of a message
MaxSuffix == 2

----------------------------------------------------------------------------
(* Values *)

\* None where a string or a list is expected; strings are sequences of
\* one-character strings, so no string equals it
None == <<"None">>
\* None as a Python value
NoneValue == [type |-> "NoneType"]
\* msg.reply_to_message of a message that replies to nothing
NoMessage == [exists |-> FALSE]
\* a literal piece of a formatted string
Lit(s) == <<s>>
NoError == "none"

NameA == <<"a">>
NameB == <<"b">>
GdClear == <<"g", "d", "c", "l", "e", "a", "r">>
GdReset == <<"g", "d", "r", "e", "s", "e", "t">>

\* command names and aliases, in the order dir() lists them
NameList == <<NameA, NameB, GdClear>>
Names == {NameList[i] : i \in DOMAIN NameList}

Modules == {"Misc", "GoogleDrive"}

RECURSIVE SeqsUpTo(_, _)
SeqsUpTo(S, n) ==
    IF n = 0 THEN {<<>>}
    ELSE LET shorter == SeqsUpTo(S, n - 1)
         IN  shorter \cup {Append(s, x) : s \in shorter, x \in S}

Range(s) == {s[i] : i \in DOMAIN s}

NoDup(s) == \A i, j \in DOMAIN s : i # j => s[i] # s[j]

\* the alias lists of a function named name: the aliases are distinct and
\* none of them is the name itself
AliasLists(name) ==
    {al \in SeqsUpTo(Names \ {name}, MaxAliases) : NoDup(al)}

----------------------------------------------------------------------------
(* command.Command: the attributes on_command and the table read *)

\* a command function that carries only aliases
PlainFunc(al) ==
    [aliases |-> al, usage |-> None, usage_optional |-> FALSE,
     usage_reply |-> FALSE, pattern |-> None, id |-> "plain"]

Command(name, mod, func) ==
    [name |-> name, module |-> mod, func |-> func,
     aliases |-> func.aliases, usage |-> func.usage,
     usage_optional |-> func.usage_optional,
     usage_reply |-> func.usage_reply, pattern |-> func.pattern]

----------------------------------------------------------------------------
(* The dict self.commands *)

Keys(t) == {t[i].key : i \in DOMAIN t}

Has(t, k) == k \in Keys(t)

Get(t, k) == t[CHOOSE i \in DOMAIN t : t[i].key = k].cmd

\* t[k] = c: a new key goes last, an existing key keeps its place
SetItem(t, k, c) ==
    IF Has(t, k)
    THEN [i \in DOMAIN t |-> IF t[i].key = k THEN [key |-> k, cmd |-> c] ELSE t[i]]
    ELSE Append(t, [key |-> k, cmd |-> c])

\* del t[k], for a key that is present
DelItem(t, k) == SelectSeq(t, LAMBDA e : e.key # k)

Values(t) == {t[i].cmd : i \in DOMAIN t}

----------------------------------------------------------------------------
(* register_command *)

\* line 26: name in self.commands
NameTaken(t, name) == Has(t, name)

\* the alias loop without its membership test
AliasTakenNever(t, alias) == FALSE

\* line 33: alias in self.commands
AliasTaken(t, alias) == Has(t, alias)

RECURSIVE RegisterAliases(_, _, _)
RegisterAliases(t, cmd, i) ==
    IF i > Len(cmd.aliases)
    THEN [commands |-> t, raised |-> NoError]
    ELSE IF AliasTaken(t, cmd.aliases[i])
         THEN [commands |-> t, raised |-> "ExistingCommandError"]
         ELSE RegisterAliases(SetItem(t, cmd.aliases[i], cmd), cmd, i + 1)

RegisterCommand(t, mod, name, func) ==
    LET cmd == Command(name, mod, func)
    IN  IF NameTaken(t, name)
        THEN [commands |-> t, raised |-> "ExistingCommandError"]
        ELSE RegisterAliases(SetItem(t, name, cmd), cmd, 1)

----------------------------------------------------------------------------
(* unregister_command *)

RECURSIVE DelAliases(_, _, _)
DelAliases(t, aliases, i) ==
    IF i > Len(aliases) THEN t
    ELSE DelAliases(IF Has(t, aliases[i]) THEN DelItem(t, aliases[i]) ELSE t,
                    aliases, i + 1)

UnregisterCommand(t, cmd) ==
    IF ~Has(t, cmd.name)
    THEN [commands |-> t, raised |-> "KeyError"]
    ELSE [commands |-> DelAliases(DelItem(t, cmd.name), cmd.aliases, 1),
          raised |-> NoError]

----------------------------------------------------------------------------
(* unregister_commands *)

ToUnreg(t, mod) ==
    LET picked == SelectSeq(t, LAMBDA e : e.key = e.cmd.name /\ e.cmd.module = mod)
    IN  [i \in DOMAIN picked |-> picked[i].cmd]

RECURSIVE UnregisterAll(_, _, _)
UnregisterAll(t, cmds, i) ==
    IF i > Len(cmds)
    THEN [commands |-> t, raised |-> NoError]
    ELSE LET r == UnregisterCommand(t, cmds[i])
         IN  IF r.raised # NoError THEN r
             ELSE UnregisterAll(r.commands, cmds, i + 1)

UnregisterCommands(t, mod) == UnregisterAll(t, ToUnreg(t, mod), 1)

----------------------------------------------------------------------------
(* register_commands *)

RECURSIVE RegisterCommandsFrom(_, _, _, _)
RegisterCommandsFrom(t, mod, funcs, i) ==
    IF i > Len(funcs)
    THEN [commands |-> t, raised |-> NoError]
    ELSE LET r == RegisterCommand(t, mod, funcs[i].name, funcs[i].func)
         IN  IF r.raised = NoError
             THEN RegisterCommandsFrom(r.commands, mod, funcs, i + 1)
             ELSE LET u == UnregisterCommands(r.commands, mod)
                  IN  [commands |-> u.commands,
                       raised |-> IF u.raised # NoError THEN u.raised ELSE r.raised]

RegisterCommands(t, mod, funcs) == RegisterCommandsFrom(t, mod, funcs, 1)

\* what find_prefixed_funcs(mod, "cmd_") can yield: the functions of a module,
\* by name in dir() order, at most MaxCmds of them
PickNames(S) ==
    LET picked == SelectSeq([i \in DOMAIN NameList |-> i], LAMBDA i : i \in S)
    IN  [i \in DOMAIN picked |-> NameList[picked[i]]]

ModuleFuncs ==
    UNION {
        LET names == PickNames(S)
        IN  {[i \in DOMAIN names |-> [name |-> names[i], func |-> PlainFunc(als[i])]] :
                als \in {f \in [DOMAIN names -> SeqsUpTo(Names, MaxAliases)] :
                            \A i \in DOMAIN names : f[i] \in AliasLists(names[i])}}
        : S \in {T \in SUBSET DOMAIN NameList : Cardinality(T) <= MaxCmds}}

----------------------------------------------------------------------------------
(* Strings *)

Prefix == <<".">>

Space == " "

StartsWith(s, p) == Len(s) >= Len(p) /\ SubSeq(s, 1, Len(p)) = p

\* s[n:]
From(s, n) == IF n >= Len(s) THEN <<>> ELSE SubSeq(s, n + 1, Len(s))

\* str.split(): the maximal runs of non-whitespace characters
RECURSIVE SplitFrom(_, _, _, _)
SplitFrom(s, i, word, parts) ==
    IF i > Len(s)
    THEN IF word = <<>> THEN parts ELSE Append(parts, word)
    ELSE IF s[i] = Space
         THEN SplitFrom(s, i + 1, <<>>,
                        IF word = <<>> THEN parts ELSE Append(parts, word))
         ELSE SplitFrom(s, i + 1, Append(word, s[i]), parts)

Split(s) == SplitFrom(s, 1, <<>>, <<>>)

----------------------------------------------------------------------------
(* command_predicate *)

Accepts(msg) == msg.text # None /\ StartsWith(msg.text, Prefix)

\* msg.segments as the filter sets it on a message it accepts
Segments(msg) ==
    LET parts == Split(msg.text)
    IN  [parts EXCEPT ![1] = From(parts[1], Len(Prefix))]

----------------------------------------------------------------------------
(* on_command *)

GdExempt == {GdClear, GdReset}

\* the exceptions that derive from Exception; CancelledError and the other
\* BaseException-only classes do not
ExceptionClasses == {"MessageNotModified", "ValueError", "TypeError", "IndexError"}

IsException(exc) == exc \in ExceptionClasses

FormatException(exc) == <<"format_exception", exc>>

\* the literals of the responses, without the warning sign that precedes them
MissingParameters == "Missing parameters: "

ErrBase(cmd) == <<Lit(MissingParameters), cmd.usage>>

\* a lookup that takes any key the word starts with
LookupByPrefix(t, key) ==
    IF \E i \in DOMAIN t : StartsWith(key, t[i].key)
    THEN [found |-> TRUE,
          cmd |-> t[CHOOSE i \in DOMAIN t : StartsWith(key, t[i].key)].cmd]
    ELSE [found |-> FALSE]

\* self.commands[msg.segments[0]], found FALSE for the KeyError
Lookup(t, key) ==
    IF Has(t, key) THEN [found |-> TRUE, cmd |-> Get(t, key)]
    ELSE [found |-> FALSE]

CmdLen(segments) == Len(Prefix) + Len(segments[1]) + 1

\* Context.input as the constructor sets it
CtxInput(msg, cmd_len) == From(msg.text, cmd_len)

\* the matches of a compiled pattern, or the TypeError it raises on None
FindIter(pattern, text) ==
    IF text = None THEN [raised |-> "TypeError"]
    ELSE [raised |-> NoError, matches |-> <<"matches", text>>]

Matches(cmd, msg, cmd_len) ==
    IF cmd.pattern # None /\ msg.reply_to_message # NoMessage
    THEN FindIter(cmd.pattern, msg.reply_to_message.text)
    ELSE IF cmd.pattern # None /\ msg.text # <<>>
         THEN FindIter(cmd.pattern, From(msg.text, cmd_len))
         ELSE [raised |-> NoError, matches |-> None]

CtxResponse(text, delete_after) ==
    [via |-> "ctx.respond", text |-> text, delete_after |-> delete_after]

BotResponse(text) ==
    [via |-> "self.respond", text |-> text, delete_after |-> NoneValue]

\* the argument check left out
ArgumentsUnchecked(cmd, input) == FALSE

\* line 118: the command declares a usage and the input is empty
ArgumentsMissing(cmd, input) == cmd.usage # None /\ input = <<>>

\* lines 117-138: [go, input] to call the handler with that ctx.input, or
\* the response sent before returning
EnsureArguments(cmd, msg, input) ==
    LET reply_msg == msg.reply_to_message
        proceed(inp) == [go |-> TRUE, input |-> inp]
        refuse(tail) == [go |-> FALSE,
                         response |-> CtxResponse(ErrBase(cmd) \o tail, NoneValue)]
    IN  IF ~ArgumentsMissing(cmd, input) THEN proceed(input)
        ELSE IF cmd.usage_reply
             THEN IF reply_msg # NoMessage
                  THEN IF reply_msg.text # None THEN proceed(reply_msg.text)
                       ELSE IF reply_msg.media THEN proceed(input)
                       ELSE IF ~cmd.usage_optional
                            THEN refuse(<<Lit("\n__The message you replied to doesn't contain text.__")>>)
                            ELSE proceed(input)
                  ELSE IF ~cmd.usage_optional
                       THEN refuse(<<Lit(" (replying is also supported)")>>)
                       ELSE proceed(input)
             ELSE IF ~cmd.usage_optional THEN refuse(<<>>)
                  ELSE proceed(input)

\* What a handler does when awaited: it returns a value or raises
StrValue == [type |-> "str", value |-> "ret"]

HandlerBehaviours ==
    {[kind |-> "return", ret |-> NoneValue],
     [kind |-> "return", ret |-> StrValue],
     [kind |-> "return", ret |-> [type |-> "tuple",
                                  items |-> <<StrValue, [type |-> "int", value |-> "5"]>>]],
     [kind |-> "return", ret |-> [type |-> "tuple",
                                  items |-> <<StrValue, [type |-> "str", value |-> "5s"]>>]],
     [kind |-> "return", ret |-> [type |-> "tuple", items |-> <<StrValue>>]],
     [kind |-> "raise", exc |-> "MessageNotModified"],
     [kind |-> "raise", exc |-> "ValueError"],
     [kind |-> "raise", exc |-> "CancelledError"]}

\* lines 141-149: the responses sent for what the handler did, and the
\* exception that reaches the except clauses
AfterHandler(h) ==
    IF h.kind = "raise" THEN [responses |-> <<>>, exc |-> h.exc]
    ELSE IF h.ret.type = "tuple"
         THEN IF Len(h.ret.items) < 2
              THEN [responses |-> <<>>, exc |-> "IndexError"]
              ELSE IF h.ret.items[2].type \notin {"int", "float"}
                   THEN [responses |-> <<>>, exc |-> "TypeError"]
                   ELSE [responses |-> <<CtxResponse(<<Lit(h.ret.items[1].value)>>,
                                                     h.ret.items[2])>>,
                         exc |-> NoError]
         ELSE IF h.ret.type # "NoneType"
              THEN [responses |-> <<CtxResponse(<<Lit(h.ret.value)>>, NoneValue)>>,
                    exc |-> NoError]
              ELSE [responses |-> <<>>, exc |-> NoError]

\* an except clause that names TypeError instead of Exception
CatchesTypeErrorOnly(exc) == exc = "TypeError"

\* line 154: except Exception
CatchesHandlerError(exc) == IsException(exc)

\* line 164: except Exception
CatchesDispatchError(exc) == IsException(exc)

ErrorExecuting == "**Out**:\nError executing command:\n"

ExecutionError(input, exc) ==
    CtxResponse(<<Lit("**In**:\n"), input, Lit(ErrorExecuting), FormatException(exc)>>,
                NoneValue)

HandlerError(exc) ==
    BotResponse(<<Lit("Error in command handler:\n"), FormatException(exc)>>)

\* lines 164-172: an exception inside the outer try
Outer(out, exc) ==
    IF CatchesDispatchError(exc)
    THEN [out EXCEPT !.responses = Append(@, HandlerError(exc))]
    ELSE [out EXCEPT !.raised = exc]

\* lines 140-163: the handler is called with ctx.input = input
Invoke(out, cmd, msg, input, h) ==
    LET called == [out EXCEPT !.invoked = Append(@, [func |-> cmd.func, input |-> input])]
        a == AfterHandler(h)
        sent == [called EXCEPT !.responses = @ \o a.responses]
        dispatched(o) == [o EXCEPT !.events = Append(@, [event |-> "command", cmd |-> cmd.name])]
    IN  IF a.exc = NoError \/ a.exc = "MessageNotModified" THEN dispatched(sent)
        ELSE IF CatchesHandlerError(a.exc)
             THEN dispatched([sent EXCEPT !.responses =
                                 Append(@, ExecutionError(input, a.exc))])
             ELSE Outer(sent, a.exc)

Nothing == [invoked |-> <<>>, responses |-> <<>>, events |-> <<>>, raised |-> NoError]

\* on_command(msg) on the table t; creds is cmd.module.creds and h what the
\* handler does if it is called
OnCommand(t, msg, creds, h) ==
    IF msg.via_bot THEN Nothing
    ELSE LET segments == Segments(msg)
             found == Lookup(t, segments[1])
         IN  IF ~found.found THEN Nothing
             ELSE LET cmd == found.cmd
                      gdrive == cmd.module = "GoogleDrive" /\ cmd.name \notin GdExempt
                      out == IF gdrive
                             THEN [Nothing EXCEPT !.events = <<[event |-> "command_gdrive"]>>]
                             ELSE Nothing
                      cmd_len == CmdLen(segments)
                      m == Matches(cmd, msg, cmd_len)
                      args == EnsureArguments(cmd, msg, CtxInput(msg, cmd_len))
                  IN  IF gdrive /\ ~creds THEN out
                      ELSE IF m.raised # NoError THEN Outer(out, m.raised)
                      ELSE IF ~args.go
                           THEN [out EXCEPT !.responses = Append(@, args.response)]
                           ELSE Invoke(out, cmd, msg, args.input, h)

\* whether on_command(msg) calls the handler, and so what h is asked
Handles(t, msg, creds) ==
    OnCommand(t, msg, creds, [kind |-> "return", ret |-> NoneValue]).invoked # <<>>

----------------------------------------------------------------------
(* The registration operations as actions *)

NoDispatch == invoked' = <<>> /\ responses' = <<>> /\ events' = <<>>

\* register_command(mod, name, func); with keepArgs the arguments stay in call
RegisterCommandCall(keepArgs) ==
    \E mod \in Modules, name \in Names :
      \E al \in AliasLists(name) :
        LET r == RegisterCommand(commands, mod, name, PlainFunc(al))
        IN  /\ commands' = r.commands
            /\ raised' = r.raised
            /\ call' = IF keepArgs
                       THEN [op |-> "register_command",
                             cmd |-> Command(name, mod, PlainFunc(al))]
                       ELSE [op |-> "register_command"]
            /\ NoDispatch

RegisterCommandAction == RegisterCommandCall(FALSE)

RegisterCommandArgsAction == RegisterCommandCall(TRUE)

UnregisterCommandAction ==
    \E cmd \in Values(commands) :
        LET r == UnregisterCommand(commands, cmd)
        IN  /\ commands' = r.commands
            /\ raised' = r.raised
            /\ call' = [op |-> "unregister_command"]
            /\ NoDispatch

RegisterCommandsAction ==
    \E mod \in Modules, funcs \in ModuleFuncs :
        LET r == RegisterCommands(commands, mod, funcs)
        IN  /\ commands' = r.commands
            /\ raised' = r.raised
            /\ call' = [op |-> "register_commands", mod |-> mod]
            /\ NoDispatch

UnregisterCommandsAction ==
    \E mod \in Modules :
        LET r == UnregisterCommands(commands, mod)
        IN  /\ commands' = r.commands
            /\ raised' = r.raised
            /\ call' = [op |-> "unregister_commands"]
            /\ NoDispatch

Init ==
    /\ commands = <<>>
    /\ call = [op |-> "init"]
    /\ raised = NoError
    /\ invoked = <<>>
    /\ responses = <<>>
    /\ events = <<>>

Next ==
    \/ RegisterCommandAction
    \/ UnregisterCommandAction
    \/ RegisterCommandsAction
    \/ UnregisterCommandsAction

\* every sequence of calls of the four registration operations
Spec == Init /\ [][Next]_vars

NextRegister ==
    \/ RegisterCommandArgsAction
    \/ UnregisterCommandAction
    \/ UnregisterCommandsAction

\* the same calls without register_commands, the arguments of register_command kept
SpecRegister == Init /\ [][NextRegister]_vars

----------------------------------------------------------------------------
(* Messages reaching the dispatcher *)

Usage == <<"u">>

\* a command function with a usage declaration and a pattern
DispatchFuncs ==
    {[aliases |-> al, usage |-> u.usage, usage_optional |-> u.optional,
      usage_reply |-> u.reply, pattern |-> p, id |-> "handler"] :
        al \in SeqsUpTo(Names, MaxAliases),
        u \in {[usage |-> None, optional |-> FALSE, reply |-> FALSE]}
              \cup [usage : {Usage}, optional : BOOLEAN, reply : BOOLEAN],
        p \in {None, <<"pattern">>}}

\* the tables of a bot that loaded one command with a usage and a pattern,
\* then the plain command b of module Misc
DispatchTable(mod, name, f) ==
    RegisterCommand(RegisterCommand(<<>>, mod, name, f).commands,
                    "Misc", NameB, PlainFunc(<<>>)).commands

DispatchTables ==
    UNION {{DispatchTable(mod, name, f) :
                f \in {g \in DispatchFuncs : g.aliases \in AliasLists(name)}} :
            mod \in Modules, name \in {NameA, GdClear}}

Words == Names \cup {<<>>, <<"x">>}

Texts ==
    {Prefix \o w \o s : w \in Words, s \in SeqsUpTo({Space, "x"}, MaxSuffix)}
    \cup {None, NameA}

ReplyMessages ==
    {NoMessage,
     [exists |-> TRUE, text |-> <<"r">>, media |-> FALSE],
     [exists |-> TRUE, text |-> None, media |-> TRUE],
     [exists |-> TRUE, text |-> None, media |-> FALSE]}

Messages ==
    [text : Texts, via_bot : BOOLEAN, reply_to_message : ReplyMessages]

NoHandler == [kind |-> "not called"]

\* the client delivers a message to the filter
ReceiveAction ==
    \E msg \in Messages :
        /\ call.op \in {"init", "idle"}
        /\ call' = [op |-> "received", msg |-> msg]
        /\ raised' = NoError
        /\ NoDispatch
        /\ UNCHANGED commands

\* a message the filter rejects never reaches on_command
FilteredAction ==
    /\ call.op = "received"
    /\ ~Accepts(call.msg)
    /\ call' = [op |-> "filtered", msg |-> call.msg]
    /\ raised' = NoError
    /\ NoDispatch
    /\ UNCHANGED commands

OnCommandAction ==
    /\ call.op = "received"
    /\ Accepts(call.msg)
    /\ \E creds \in BOOLEAN :
         \E h \in IF Handles(commands, call.msg, creds)
                  THEN HandlerBehaviours ELSE {NoHandler} :
           LET r == OnCommand(commands, call.msg, creds, h)
           IN  /\ call' = [op |-> "on_command", msg |-> call.msg,
                           creds |-> creds, h |-> h]
               /\ raised' = r.raised
               /\ invoked' = r.invoked
               /\ responses' = r.responses
               /\ events' = r.events
               /\ UNCHANGED commands

\* the handling of the message is over; the next message starts afresh
FinishAction ==
    /\ call.op \in {"filtered", "on_command"}
    /\ call' = [op |-> "idle"]
    /\ raised' = NoError
    /\ NoDispatch
    /\ UNCHANGED commands

InitDispatch ==
    /\ commands \in DispatchTables
    /\ call = [op |-> "init"]
    /\ raised = NoError
    /\ invoked = <<>>
    /\ responses = <<>>
    /\ events = <<>>

NextDispatch ==
    \/ ReceiveAction
    \/ FilteredAction
    \/ OnCommandAction
    \/ FinishAction

\* a bot with its commands loaded, handling messages
SpecDispatch == InitDispatch /\ [][NextDispatch]_vars

----------------------------------------------------------------------------
(* Properties of on_command, under SpecDispatch *)

Handled == call.op = "on_command"

\* msg.segments[0] of the message on_command handled
Seg0 == Segments(call.msg)[1]

\* C1: for a message that is not via_bot, on_command calls at most one
\* handler, and it is the func of the command the table holds under the key
\* msg.segments[0], be that key a name or an alias; when msg.segments[0] is
\* no key of the table, no handler is called, no response is sent and no event
\* is dispatched.
C1_Routing ==
    (Handled /\ ~call.msg.via_bot) =>
        /\ Len(invoked) <= 1
        /\ \A i \in DOMAIN invoked :
              /\ Seg0 \in Keys(commands)
              /\ \E j \in DOMAIN commands :
                    commands[j].key = Seg0 /\ invoked[i].func = commands[j].cmd.func
        /\ Seg0 \notin Keys(commands) =>
              /\ invoked = <<>>
              /\ responses = <<>>
              /\ events = <<>>
              /\ raised = NoError

\* a handler was called for a message that names its command by an alias
C1_Witness ==
    /\ Handled
    /\ ~call.msg.via_bot
    /\ Len(invoked) = 1
    /\ \E j \in DOMAIN commands :
          /\ commands[j].key = Seg0
          /\ commands[j].cmd.name # Seg0
          /\ invoked[1].func = commands[j].cmd.func

\* the command the message names requires arguments
RequiresArguments ==
    /\ Handled
    /\ ~call.msg.via_bot
    /\ Seg0 \in Keys(commands)
    /\ Get(commands, Seg0).usage # None
    /\ ~Get(commands, Seg0).usage_optional

\* the text of the message after the prefix, the command word and one more
\* character
GivenInput == From(call.msg.text, Len(Prefix) + Len(Seg0) + 1)

RepliesToText ==
    call.msg.reply_to_message.exists /\ call.msg.reply_to_message.text # None

RepliesToMedia ==
    /\ call.msg.reply_to_message.exists
    /\ call.msg.reply_to_message.text = None
    /\ call.msg.reply_to_message.media

\* on_command left before the argument check: the GoogleDrive module has no
\* credentials, or the pattern was matched against a reply without text
StoppedBeforeCheck ==
    LET cmd == Get(commands, Seg0)
    IN  \/ cmd.module = "GoogleDrive" /\ cmd.name \notin GdExempt /\ ~call.creds
        \/ /\ cmd.pattern # None
           /\ call.msg.reply_to_message.exists
           /\ call.msg.reply_to_message.text = None

SaysMissingParameters(response) ==
    StartsWith(response.text, <<Lit(MissingParameters), Get(commands, Seg0).usage>>)

\* C2 as claimed: a command whose usage is not None and whose usage_optional
\* is false is never called with an empty ctx.input.
C2_NeverEmptyInput ==
    RequiresArguments => \A i \in DOMAIN invoked : invoked[i].input # <<>>

\* C2 as amended: such a command is called with an empty ctx.input only when
\* usage_reply is set and the message replies to a message without text that
\* carries media. Otherwise the input it is called with is the non-empty
\* input of the message or, only when usage_reply is set, the text of the
\* replied-to message; and when neither is there and the argument check is
\* reached, the one response sent starts with "Missing parameters: <usage>"
\* and the handler is not called.
C2_EmptyInputOnlyForMedia ==
    RequiresArguments =>
        LET cmd == Get(commands, Seg0)
        IN  /\ \A i \in DOMAIN invoked :
                  \/ invoked[i].input # <<>> /\ invoked[i].input = GivenInput
                  \/ /\ GivenInput = <<>>
                     /\ cmd.usage_reply
                     /\ RepliesToText
                     /\ invoked[i].input = call.msg.reply_to_message.text
                  \/ /\ invoked[i].input = <<>>
                     /\ GivenInput = <<>>
                     /\ cmd.usage_reply
                     /\ RepliesToMedia
            /\ ( /\ GivenInput = <<>>
                 /\ ~(cmd.usage_reply /\ (RepliesToText \/ RepliesToMedia))
                 /\ ~StoppedBeforeCheck )
               => /\ invoked = <<>>
                  /\ Len(responses) = 1
                  /\ SaysMissingParameters(responses[1])

\* a message without input for a command that requires it was answered with
\* the missing-parameters response
C2_Witness ==
    /\ RequiresArguments
    /\ GivenInput = <<>>
    /\ invoked = <<>>
    /\ Len(responses) = 1
    /\ SaysMissingParameters(responses[1])

\* the handler was called and raised exc, or returned a tuple whose second
\* element is no number (exc is then TypeError)
HandlerFailedWith(exc) ==
    /\ Handled
    /\ invoked # <<>>
    /\ \/ call.h.kind = "raise" /\ call.h.exc = exc
       \/ /\ exc = "TypeError"
          /\ call.h.kind = "return"
          /\ call.h.ret.type = "tuple"
          /\ Len(call.h.ret.items) >= 2
          /\ call.h.ret.items[2].type \notin {"int", "float"}

\* exactly one response was sent, it says "Error executing command" with the
\* formatted exception, and no exception left on_command
ReportedToChat(exc) ==
    /\ Len(responses) = 1
    /\ \E k \in DOMAIN responses[1].text : responses[1].text[k] = Lit(ErrorExecuting)
    /\ \E k \in DOMAIN responses[1].text : responses[1].text[k] = FormatException(exc)
    /\ raised = NoError

AllRaised == ExceptionClasses \cup {"CancelledError"}

\* C3 as claimed: whatever the handler raises other than MessageNotModified
\* is reported to the chat and does not leave on_command.
C3_EveryFailureReported ==
    \A exc \in AllRaised \ {"MessageNotModified"} :
        HandlerFailedWith(exc) => ReportedToChat(exc)

\* C3 as amended: whatever the handler raises that derives from Exception,
\* other than MessageNotModified, is reported to the chat and does not leave
\* on_command.
C3_ExceptionsReported ==
    \A exc \in ExceptionClasses \ {"MessageNotModified"} :
        HandlerFailedWith(exc) => ReportedToChat(exc)

\* a handler raised ValueError and the chat was told
C3_Witness ==
    /\ HandlerFailedWith("ValueError")
    /\ call.h.kind = "raise"
    /\ ReportedToChat("ValueError")

----------------------------------------------------------------------------
(* Properties of the command table *)

\* the keys a command is registered under
KeysOf(cmd) == {cmd.name} \cup Range(cmd.aliases)

\* C4: register_command raises ExistingCommandError when the name or an
\* alias of the new command is a key of the table already, and whether it
\* raises or not, every key the table had still maps to the command it
\* mapped to.  Checked under SpecRegister.
C4_RegisterNeverOverwrites ==
    [][call'.op = "register_command" =>
          /\ (KeysOf(call'.cmd) \cap Keys(commands) # {})
                => raised' = "ExistingCommandError"
          /\ \A k \in Keys(commands) :
                k \in Keys(commands') /\ Get(commands', k) = Get(commands, k)
      ]_vars

\* register_command raised on an alias another command holds, after it had
\* stored the new command under its name
C4_Witness ==
    /\ call.op = "register_command"
    /\ raised = "ExistingCommandError"
    /\ call.cmd.name \in Keys(commands)
    /\ Get(commands, call.cmd.name) = call.cmd
    /\ \E k \in Range(call.cmd.aliases) :
          k \in Keys(commands) /\ Get(commands, k) # call.cmd

\* C5: when register_commands(mod) fails on a collision with an entry of the
\* table, and the table held no command of mod before, the table is afterwards
\* what it was before the call.
C5_RollbackRestoresTable ==
    [][( /\ call'.op = "register_commands"
         /\ raised' = "ExistingCommandError"
         /\ \A c \in Values(commands) : c.module # call'.mod )
          => commands' = commands
      ]_vars

\* C6: every key of the table maps to a command that has that key as its name
\* or as an alias, and every command in the table is the one stored under its
\* own name.
C6_TableWellFormed ==
    \A i \in DOMAIN commands :
        /\ commands[i].key \in KeysOf(commands[i].cmd)
        /\ \E j \in DOMAIN commands :
              /\ commands[j].key = commands[i].cmd.name
              /\ commands[j].cmd = commands[i].cmd

====
